---- MODULE Spec2Model ----
(***************************************************************************)
(* Model of anchortest's syscall stubs (src/src/stub/mod.rs): the          *)
(* Syscalls<T> override layer, its three Arc<Mutex<..>> cells, the         *)
(* process-wide provider slot that Syscalls::set fills, and the hooks of   *)
(* impl SyscallStubs for Syscalls<T>; and of the token helpers of          *)
(* src/src/spl/mod.rs (mint_to, burn_from, change_amount, transfer).       *)
(*                                                                         *)
(* Every Arc allocation is a cell id; a Syscalls value is a record of      *)
(* three cell ids.  Each method that takes a lock is split into the step   *)
(* that acquires the Mutex and the steps it takes while holding it, so     *)
(* that threads interleave exactly where the code lets them.               *)
(*                                                                         *)
(* Spec is the test and the program under test using the stubs;            *)
(* NestedSpec is an installed instance whose validator may call hooks      *)
(* while it validates; HelperSpec is one call of a token helper on         *)
(* account data of any content; TokenSpec is a mint and its wallets under  *)
(* any sequence of mint_to, burn_from and transfer.  Machine words are     *)
(* scaled: a u64 is WordBits wide, an i128 twice that.                     *)
(***************************************************************************)
EXTENDS Integers, Sequences, FiniteSets, Bags, TLC

\* ------------------------------------------------------------- bounds
NumThreads == 2
MaxInstances == 2
MaxHandles == 2
MaxOps == 3
\* The machine word: u64 is modelled WordBits wide and i128 twice as wide.
WordBits == 3

Threads == 1..NumThreads
Cells == 1..MaxInstances

\* ------------------------------------------------------------- values
NoThread == 0
NoProvider == [cpi_validator |-> 0, clock |-> 0, logs |-> 0]

\* Clock: the sysvar struct (solana_program::clock::Clock), #[repr(C)].
ClockOf(s, est, e, lse, ut) ==
    [slot |-> s, epoch_start_timestamp |-> est, epoch |-> e,
     leader_schedule_epoch |-> lse, unix_timestamp |-> ut]

\* Clock::default(): what Default::default() puts in the clock cell.
DefaultClock == ClockOf(0, 0, 0, 0, 0)

\* The clock values a test passes to Syscalls::clock.
TestClocks == { ClockOf(1, 0, 0, 0, 2), ClockOf(5, 6, 7, 8, 9) }

\* The slots a test passes to Syscalls::slot.
TestSlots == { 10, 42 }

\* The raw memory image that sol_get_clock_sysvar copies: the struct's
\* words in declaration order.
ClockBytes(c) ==
    << c.slot, c.epoch_start_timestamp, c.epoch,
       c.leader_schedule_epoch, c.unix_timestamp >>

\* What Clock::get() makes of the image it was handed back.
ClockFromBytes(b) == ClockOf(b[1], b[2], b[3], b[4], b[5])

\* The part of the image a copy moves first, and the rest.
FirstChunk == 1..2
CopyChunk(dst, src, first) ==
    [k \in 1..5 |-> IF (k \in FirstChunk) = first THEN src[k] ELSE dst[k]]

\* ------------------------------------------------------------- state
VARIABLES
    validatorCell,  \* Arc<Mutex<T>> allocations: cell id -> the T inside
    validatorLock,  \* cell id -> the thread holding that Mutex, or NoThread
    poisoned,       \* cell id -> whether a panic poisoned that Mutex
    clockCell,      \* Arc<Mutex<Clock>> allocations: cell id -> Clock
    clockLock,      \* cell id -> the thread holding that Mutex, or NoThread
    logsCell,       \* Arc<Mutex<Vec<String>>> allocations: cell id -> Vec
    logsLock,       \* cell id -> the thread holding that Mutex, or NoThread
    allocated,      \* how many cells of each kind have been allocated
    handles,        \* the Syscalls values the test holds (a bag)
    validatorArcs,  \* the Arc<Mutex<T>> values validator() handed out
    active,         \* the syscall stubs set_syscall_stubs installed
    pc,             \* thread -> where it is inside the call it is making
    loc,            \* thread -> the arguments and locals of that call
    returned,       \* what the call that returned last gave its caller
    ops,            \* calls started by the threads so far
    lastSet,        \* history: cell id -> the clock the updates so far leave
    wholesale,      \* history: cell id -> whether clock(c) was ever called
    emitted,        \* history: cell id -> the messages sol_log was given
    issued,         \* history: thread -> the CPIs it issued, in order
    delivered,      \* history: cell id -> the records its validator was given
    outer,          \* thread -> the validation it is inside while it calls a hook
    mint,           \* spl: the supply packed in the mint account's data
    wallets,        \* spl: wallet -> the amount packed in that account's data
    result          \* spl: the helper called last, its arguments and its result

stubVars ==
    << validatorCell, validatorLock, poisoned, clockCell, clockLock,
       logsCell, logsLock, allocated, handles, validatorArcs, active,
       pc, loc, returned, ops, lastSet, wholesale, emitted, issued, delivered,
       outer >>
splVars == << mint, wallets, result >>
vars == << stubVars, splVars >>

cellVars == << validatorCell, validatorLock, poisoned, clockCell, clockLock,
               logsCell, logsLock, emitted, issued, delivered >>
clockVars == << clockCell, clockLock, lastSet, wholesale >>
logVars == << logsCell, logsLock, emitted >>
validatorVars == << validatorCell, validatorLock, poisoned, issued, delivered >>
lifeVars == << allocated, handles, validatorArcs, active >>

\* A thread between two calls.
NoCall == [op |-> "none"]
\* A call's result: what it wrote for its caller and its return value.
Returned(op, out, ret) == [op |-> op, out |-> out, ret |-> ret]

\* The validators a test constructs Syscalls with.
\* The module documentation's CpiValidator, in its initial state.
CpiValidator == [kind |-> "CpiValidator", state |-> "FirstCpiCall"]
\* A validator that expects the calls [A, B] in that order.
SeqValidator == [kind |-> "SeqValidator", state |-> "ExpectA"]
Unallocated == [kind |-> "none", state |-> "none"]

Validators == { CpiValidator, SeqValidator }

\* Validators whose validate_next_instruction calls a hook before it
\* accepts: one that logs, reads the clock or sets it, and one that issues
\* a CPI of its own.
HookingValidator == [kind |-> "HookingValidator", state |-> "Start"]
RecursiveValidator == [kind |-> "RecursiveValidator", state |-> "Start"]
HookingKinds == { "HookingValidator", "RecursiveValidator" }
Wanted(kind) ==
    IF kind = "RecursiveValidator"
    THEN { "sol_invoke_signed" }
    ELSE { "sol_log", "sol_get_clock_sysvar", "slot", "clock", "logs" }

\* What the program under test passes to invoke_signed.
Instructions == { "A", "B" }
\* The account infos the program passes along with each instruction.
AccountInfosFor(ix) == IF ix = "A" THEN << "acc1" >> ELSE << "acc1", "acc2" >>
SignersSeeds == { << >>, << "seed" >> }

\* The messages the program under test logs.
Messages == { "m1", "m2" }

\* ------------------------------------------------- spl: values and data
U64Max == 2^WordBits - 1
U64 == 0..U64Max
I128Min == -(2^(2 * WordBits - 1))
I128Max == 2^(2 * WordBits - 1) - 1
I128 == I128Min..I128Max

\* Option<T>: None, and Some(v).
None == << >>
Some(v) == << v >>
\* The unit value ().
Unit == << >>

\* The token accounts the helpers are handed.
Wallets == { "w1", "w2" }

\* Pack::pack_into_slice of a u64 field: its digits, least significant
\* first.
PackLe(v) == [i \in 1..WordBits |-> (v \div 2^(i - 1)) % 2]

\* Pack::unpack_from_slice of a u64 field.
RECURSIVE UnpackLe(_)
UnpackLe(b) == IF b = << >> THEN 0 ELSE Head(b) + 2 * UnpackLe(Tail(b))

\* No helper has been called.
NoResult == [fn |-> "none", args |-> << >>, ret |-> None, panic |-> FALSE]

StubInit ==
    /\ validatorCell = [i \in Cells |-> Unallocated]
    /\ validatorLock = [i \in Cells |-> NoThread]
    /\ poisoned = [i \in Cells |-> FALSE]
    /\ clockCell = [i \in Cells |-> DefaultClock]
    /\ clockLock = [i \in Cells |-> NoThread]
    /\ logsCell = [i \in Cells |-> << >>]
    /\ logsLock = [i \in Cells |-> NoThread]
    /\ allocated = 0
    /\ handles = EmptyBag
    /\ validatorArcs = {}
    /\ active = NoProvider
    /\ pc = [t \in Threads |-> "ready"]
    /\ loc = [t \in Threads |-> NoCall]
    /\ returned = Returned("none", << >>, 0)
    /\ ops = 0
    /\ lastSet = [i \in Cells |-> DefaultClock]
    /\ wholesale = [i \in Cells |-> FALSE]
    /\ emitted = [i \in Cells |-> << >>]
    /\ issued = [t \in Threads |-> << >>]
    /\ delivered = [i \in Cells |-> << >>]
    /\ outer = [t \in Threads |-> NoCall]

\* No account of the spl helpers is in play.
Init ==
    /\ StubInit
    /\ mint = PackLe(0)
    /\ wallets = [w \in Wallets |-> PackLe(0)]
    /\ result = NoResult

\* ------------------------------------------------- Syscalls: lifecycle
\* How many values (Syscalls, Arc<Mutex<T>>) the test holds.
Held == BagCardinality(handles) + Cardinality(validatorArcs)

\* Syscalls::new(cpi_validator): three fresh Arc<Mutex<..>>, the clock and
\* the logs at their defaults.
NewSyscalls(cpi_validator, cell) ==
    [cpi_validator |-> cell, clock |-> cell, logs |-> cell]

new(cpi_validator) ==
    /\ allocated < MaxInstances
    /\ Held < MaxHandles
    /\ allocated' = allocated + 1
    /\ validatorCell' = [validatorCell EXCEPT ![allocated + 1] = cpi_validator]
    /\ handles' = handles (+) SetToBag({ NewSyscalls(cpi_validator, allocated + 1) })
    /\ UNCHANGED << validatorLock, poisoned, issued, delivered, clockVars,
                    logVars, validatorArcs, active, pc, loc, returned, ops >>
    /\ UNCHANGED << outer, splVars >>

\* #[derive(Clone)]: Arc::clone of each of the three fields.
CloneSnapshot(self) ==
    [cpi_validator |-> self.cpi_validator,
     clock |-> (self.clock % MaxInstances) + 1, logs |-> self.logs]
CloneSyscalls(self) ==
    [cpi_validator |-> self.cpi_validator, clock |-> self.clock,
     logs |-> self.logs]

clone(self) ==
    /\ BagIn(self, handles)
    /\ Held < MaxHandles
    /\ handles' = handles (+) SetToBag({ CloneSyscalls(self) })
    /\ UNCHANGED << cellVars, lastSet, wholesale, allocated, validatorArcs,
                    active, pc, loc, returned, ops >>
    /\ UNCHANGED << outer, splVars >>

\* Syscalls::validator(&self): Arc::clone(&self.cpi_validator).
ValidatorArcCopy(self) == allocated + 1
ValidatorArc(self) == self.cpi_validator

validator(self) ==
    /\ BagIn(self, handles)
    /\ Held < MaxHandles
    /\ validatorArcs' = validatorArcs \cup { ValidatorArc(self) }
    /\ UNCHANGED << cellVars, lastSet, wholesale, allocated, handles,
                    active, pc, loc, returned, ops >>
    /\ UNCHANGED << outer, splVars >>

\* A thread is inside a hook: set_syscall_stubs waits for it, since the
\* hooks are reached through the provider slot's read lock.
InHook(t) ==
    pc[t] \in { "get_clock_locked", "get_clock_copying", "sol_log_locked",
                "invoke_locked", "invoke_validated" }

\* Syscalls::set(self): the value moves into the provider slot; the
\* provider that was there is dropped.
InstalledOnce(self, previous) ==
    IF previous = NoProvider THEN self ELSE previous
Installed(self, previous) == self

set(self) ==
    /\ BagIn(self, handles)
    /\ \A t \in Threads : ~InHook(t)
    /\ active' = Installed(self, active)
    /\ handles' = handles (-) SetToBag({ self })
    /\ UNCHANGED << cellVars, lastSet, wholesale, allocated, validatorArcs,
                    pc, loc, returned, ops >>
    /\ UNCHANGED << outer, splVars >>

\* ------------------------------------------------------ Syscalls: clock
\* A thread between two calls that may start one.
Ready(t) == pc[t] = "ready" /\ outer[t] = NoCall /\ ops < MaxOps

\* Thread t may enter op: it is between two calls, or it is inside a
\* validation that calls op.
Calls(t, op) == Ready(t) \/ (pc[t] = "calling" /\ outer[t].want = op)

\* Mutex::lock returns once no other guard of that Mutex is alive.
UnlockedAlways(lock, cell) == TRUE
UnlockedWhole(lock, cell) ==
    /\ validatorLock[cell] = NoThread
    /\ clockLock[cell] = NoThread
    /\ logsLock[cell] = NoThread
Unlocked(lock, cell) == lock[cell] = NoThread

\* Syscalls::slot(&self, slot): lock the clock ...
slot_lock(t, self, s) ==
    /\ Calls(t, "slot")
    /\ BagIn(self, handles)
    /\ Unlocked(clockLock, self.clock)
    /\ clockLock' = [clockLock EXCEPT ![self.clock] = t]
    /\ lastSet' = [lastSet EXCEPT ![self.clock].slot = s]
    /\ pc' = [pc EXCEPT ![t] = "slot_locked"]
    /\ loc' = [loc EXCEPT ![t] = [op |-> "slot", self |-> self, slot |-> s]]
    /\ ops' = ops + 1
    /\ UNCHANGED << validatorVars, clockCell, wholesale, logVars, lifeVars,
                    returned >>
    /\ UNCHANGED << outer, splVars >>

\* ... guard.slot = slot, and the guard is dropped.
SlotStoredAlone(guard, s) == [DefaultClock EXCEPT !.slot = s]
SlotStored(guard, s) == [guard EXCEPT !.slot = s]

slot_store(t) ==
    /\ pc[t] = "slot_locked"
    /\ LET c == loc[t].self.clock IN
       /\ clockCell' = [clockCell EXCEPT ![c] = SlotStored(clockCell[c], loc[t].slot)]
       /\ clockLock' = [clockLock EXCEPT ![c] = NoThread]
    /\ pc' = [pc EXCEPT ![t] = "ready"]
    /\ loc' = [loc EXCEPT ![t] = NoCall]
    /\ UNCHANGED << validatorVars, lastSet, wholesale, logVars, lifeVars,
                    returned, ops >>
    /\ UNCHANGED << outer, splVars >>

\* Syscalls::clock(&self, clock): lock the clock ...
clock_lock(t, self, c) ==
    /\ Calls(t, "clock")
    /\ BagIn(self, handles)
    /\ Unlocked(clockLock, self.clock)
    /\ clockLock' = [clockLock EXCEPT ![self.clock] = t]
    /\ lastSet' = [lastSet EXCEPT ![self.clock] = c]
    /\ wholesale' = [wholesale EXCEPT ![self.clock] = TRUE]
    /\ pc' = [pc EXCEPT ![t] = "clock_locked"]
    /\ loc' = [loc EXCEPT ![t] = [op |-> "clock", self |-> self, clock |-> c]]
    /\ ops' = ops + 1
    /\ UNCHANGED << validatorVars, clockCell, logVars, lifeVars, returned >>
    /\ UNCHANGED << outer, splVars >>

\* ... *guard = clock: the struct is moved into the cell, a part at a
\* time ...
ClockStored(guard, c, first) ==
    ClockFromBytes(CopyChunk(ClockBytes(guard), ClockBytes(c), first))

clock_store_first(t) ==
    /\ pc[t] = "clock_locked"
    /\ LET c == loc[t].self.clock IN
       clockCell' = [clockCell EXCEPT ![c] = ClockStored(clockCell[c], loc[t].clock, TRUE)]
    /\ pc' = [pc EXCEPT ![t] = "clock_storing"]
    /\ UNCHANGED << validatorVars, clockLock, lastSet, wholesale, logVars,
                    lifeVars, loc, returned, ops >>
    /\ UNCHANGED << outer, splVars >>

\* ... and the guard is dropped.
clock_store_rest(t) ==
    /\ pc[t] = "clock_storing"
    /\ LET c == loc[t].self.clock IN
       /\ clockCell' = [clockCell EXCEPT ![c] = ClockStored(clockCell[c], loc[t].clock, FALSE)]
       /\ clockLock' = [clockLock EXCEPT ![c] = NoThread]
    /\ pc' = [pc EXCEPT ![t] = "ready"]
    /\ loc' = [loc EXCEPT ![t] = NoCall]
    /\ UNCHANGED << validatorVars, lastSet, wholesale, logVars, lifeVars,
                    returned, ops >>
    /\ UNCHANGED << outer, splVars >>

\* -------------------------------------------- SyscallStubs: the sysvars
\* The buffer Clock::get() passes: a Clock::default() of its own.
CallerBuffer == ClockBytes(DefaultClock)

\* sol_get_clock_sysvar(&self, var_addr): lock the clock ...
sol_get_clock_sysvar_lock(t) ==
    /\ Calls(t, "sol_get_clock_sysvar")
    /\ active # NoProvider
    /\ Unlocked(clockLock, active.clock)
    /\ clockLock' = [clockLock EXCEPT ![active.clock] = t]
    /\ pc' = [pc EXCEPT ![t] = "get_clock_locked"]
    /\ loc' = [loc EXCEPT ![t] = [op |-> "sol_get_clock_sysvar", self |-> active,
                                  var |-> CallerBuffer]]
    /\ ops' = ops + 1
    /\ UNCHANGED << validatorVars, clockCell, lastSet, wholesale, logVars,
                    lifeVars, returned >>
    /\ UNCHANGED << outer, splVars >>

\* ... var.copy_from_slice(clock_bytes), a part at a time ...
ClockCopied(var, guard, first) == CopyChunk(var, ClockBytes(guard), first)

sol_get_clock_sysvar_copy_first(t) ==
    /\ pc[t] = "get_clock_locked"
    /\ loc' = [loc EXCEPT ![t].var =
                 ClockCopied(loc[t].var, clockCell[loc[t].self.clock], TRUE)]
    /\ pc' = [pc EXCEPT ![t] = "get_clock_copying"]
    /\ UNCHANGED << cellVars, lastSet, wholesale, lifeVars, returned, ops >>
    /\ UNCHANGED << outer, splVars >>

\* ... the guard is dropped and 0 is returned.
ClockStatus == 0

sol_get_clock_sysvar_copy_rest(t) ==
    /\ pc[t] = "get_clock_copying"
    /\ LET c == loc[t].self.clock IN
       /\ returned' = Returned("sol_get_clock_sysvar",
                               ClockCopied(loc[t].var, clockCell[c], FALSE),
                               ClockStatus)
       /\ clockLock' = [clockLock EXCEPT ![c] = NoThread]
    /\ pc' = [pc EXCEPT ![t] = "ready"]
    /\ loc' = [loc EXCEPT ![t] = NoCall]
    /\ UNCHANGED << validatorVars, clockCell, lastSet, wholesale, logVars,
                    lifeVars, ops >>
    /\ UNCHANGED << outer, splVars >>

\* sol_get_epoch_schedule_sysvar, sol_get_fees_sysvar, sol_get_rent_sysvar:
\* 0 is returned and _var_addr is not written.
UnimplementedSysvars ==
    { "sol_get_epoch_schedule_sysvar", "sol_get_fees_sysvar",
      "sol_get_rent_sysvar" }

SysvarStubUnsupported(op, var) == Returned(op, var, 1)
SysvarStub(op, var) == Returned(op, var, 0)

sol_get_sysvar(t, op) ==
    /\ Ready(t)
    /\ active # NoProvider
    /\ returned' = SysvarStub(op, CallerBuffer)
    /\ ops' = ops + 1
    /\ UNCHANGED << cellVars, lastSet, wholesale, lifeVars, pc, loc >>
    /\ UNCHANGED << outer, splVars >>

\* ------------------------------------------------ the captured logs
\* sol_log(&self, message): lock the logs ...
sol_log_lock(t, message) ==
    /\ Calls(t, "sol_log")
    /\ active # NoProvider
    /\ Unlocked(logsLock, active.logs)
    /\ logsLock' = [logsLock EXCEPT ![active.logs] = t]
    /\ emitted' = [emitted EXCEPT ![active.logs] = Append(@, message)]
    /\ pc' = [pc EXCEPT ![t] = "sol_log_locked"]
    /\ loc' = [loc EXCEPT ![t] = [op |-> "sol_log", self |-> active,
                                  message |-> message]]
    /\ ops' = ops + 1
    /\ UNCHANGED << validatorVars, clockVars, logsCell, lifeVars, returned >>
    /\ UNCHANGED << outer, splVars >>

\* ... push(message.to_string()), the guard is dropped, and the message is
\* printed to standard output.
PushedFront(vec, message) == << message >> \o vec
Pushed(vec, message) == Append(vec, message)

sol_log_push(t) ==
    /\ pc[t] = "sol_log_locked"
    /\ LET l == loc[t].self.logs IN
       /\ logsCell' = [logsCell EXCEPT ![l] = Pushed(logsCell[l], loc[t].message)]
       /\ logsLock' = [logsLock EXCEPT ![l] = NoThread]
    /\ pc' = [pc EXCEPT ![t] = "ready"]
    /\ loc' = [loc EXCEPT ![t] = NoCall]
    /\ UNCHANGED << validatorVars, clockVars, emitted, lifeVars, returned, ops >>
    /\ UNCHANGED << outer, splVars >>

\* Syscalls::logs(&self): lock the logs ...
logs_lock(t, self) ==
    /\ Calls(t, "logs")
    /\ BagIn(self, handles)
    /\ Unlocked(logsLock, self.logs)
    /\ logsLock' = [logsLock EXCEPT ![self.logs] = t]
    /\ pc' = [pc EXCEPT ![t] = "logs_locked"]
    /\ loc' = [loc EXCEPT ![t] = [op |-> "logs", self |-> self]]
    /\ ops' = ops + 1
    /\ UNCHANGED << validatorVars, clockVars, logsCell, emitted, lifeVars,
                    returned >>
    /\ UNCHANGED << outer, splVars >>

\* ... clone the vector, and the guard is dropped.
LogsCloned(vec) == vec

logs_clone(t) ==
    /\ pc[t] = "logs_locked"
    /\ LET l == loc[t].self.logs IN
       /\ returned' = Returned("logs", LogsCloned(logsCell[l]), 0)
       /\ logsLock' = [logsLock EXCEPT ![l] = NoThread]
    /\ pc' = [pc EXCEPT ![t] = "ready"]
    /\ loc' = [loc EXCEPT ![t] = NoCall]
    /\ UNCHANGED << validatorVars, clockVars, logsCell, emitted, lifeVars, ops >>
    /\ UNCHANGED << outer, splVars >>

\* ------------------------------------------------------------ the CPIs
\* ValidateCpis::validate_next_instruction of the module documentation's
\* CpiValidator: FirstCpiCall becomes Done, Done panics.
CpiValidatorNext(v, ix, accounts) ==
    IF v.state = "FirstCpiCall"
    THEN [panic |-> FALSE, v |-> [v EXCEPT !.state = "Done"]]
    ELSE [panic |-> TRUE, v |-> v]

\* The validator expecting [A, B]: the expected call advances it, any
\* other call panics.
SeqValidatorNext(v, ix, accounts) ==
    CASE v.state = "ExpectA" /\ ix = "A" ->
            [panic |-> FALSE, v |-> [v EXCEPT !.state = "ExpectB"]]
      [] v.state = "ExpectB" /\ ix = "B" ->
            [panic |-> FALSE, v |-> [v EXCEPT !.state = "Done"]]
      [] OTHER -> [panic |-> TRUE, v |-> v]

validate_next_instruction(v, ix, accounts) ==
    IF v.kind = "CpiValidator"
    THEN CpiValidatorNext(v, ix, accounts)
    ELSE SeqValidatorNext(v, ix, accounts)

\* sol_invoke_signed(&self, instruction, account_infos, _signers_seeds):
\* self.cpi_validator.lock().expect("Cannot obtain lock"): the Mutex is
\* taken, or the call panics on finding it poisoned ...
LockResultRecovered(isPoisoned) == "invoke_locked"
LockResult(isPoisoned) == IF isPoisoned THEN "aborted" ELSE "invoke_locked"

sol_invoke_signed_lock(t, instruction, signers_seeds) ==
    /\ Calls(t, "sol_invoke_signed")
    /\ active # NoProvider
    /\ Unlocked(validatorLock, active.cpi_validator)
    /\ issued' = [issued EXCEPT ![t] =
                    Append(@, [cell |-> active.cpi_validator,
                               ix |-> instruction,
                               accounts |-> AccountInfosFor(instruction)])]
    /\ pc' = [pc EXCEPT ![t] = LockResult(poisoned[active.cpi_validator])]
    /\ IF pc'[t] = "invoke_locked"
       THEN /\ validatorLock' = [validatorLock EXCEPT ![active.cpi_validator] = t]
            /\ loc' = [loc EXCEPT ![t] =
                 [op |-> "sol_invoke_signed", self |-> active,
                  instruction |-> instruction,
                  account_infos |-> AccountInfosFor(instruction),
                  signers_seeds |-> signers_seeds]]
       ELSE UNCHANGED << validatorLock, loc >>
    /\ ops' = ops + 1
    /\ UNCHANGED << validatorCell, poisoned, delivered, clockVars, logVars,
                    lifeVars, returned >>
    /\ UNCHANGED << outer, splVars >>

\* ... cpis.validate_next_instruction(instruction, account_infos): the
\* record the validator is handed, and what becomes of the call ...
DeliveryNoAccounts(t, instruction, account_infos) ==
    [thread |-> t, ix |-> instruction, accounts |-> << >>]
Delivery(t, instruction, account_infos) ==
    [thread |-> t, ix |-> instruction, accounts |-> account_infos]

ValidatedUnchecked(cpis, instruction, account_infos, signers_seeds) ==
    [panic |-> FALSE, v |-> cpis]
ValidatedSeeds(cpis, instruction, account_infos, signers_seeds) ==
    IF signers_seeds = << >>
    THEN validate_next_instruction(cpis, instruction, account_infos)
    ELSE [panic |-> TRUE, v |-> cpis]
Validated(cpis, instruction, account_infos, signers_seeds) ==
    validate_next_instruction(cpis, instruction, account_infos)

sol_invoke_signed_validate(t) ==
    /\ pc[t] = "invoke_locked"
    /\ validatorCell[loc[t].self.cpi_validator].kind \notin HookingKinds
    /\ LET v == loc[t].self.cpi_validator
           r == Validated(validatorCell[v], loc[t].instruction,
                          loc[t].account_infos, loc[t].signers_seeds)
       IN
       /\ delivered' = [delivered EXCEPT ![v] =
                          Append(@, Delivery(t, loc[t].instruction,
                                             loc[t].account_infos))]
       /\ validatorCell' = [validatorCell EXCEPT ![v] = r.v]
       /\ IF r.panic
          THEN \* the panic unwinds through the guard: the Mutex is
               \* released and poisoned
               /\ pc' = [pc EXCEPT ![t] = "aborted"]
               /\ loc' = [loc EXCEPT ![t] = NoCall]
               /\ poisoned' = [poisoned EXCEPT ![v] = TRUE]
               /\ validatorLock' = [validatorLock EXCEPT ![v] = NoThread]
          ELSE /\ pc' = [pc EXCEPT ![t] = "invoke_validated"]
               /\ UNCHANGED << poisoned, validatorLock, loc >>
    /\ UNCHANGED << issued, clockVars, logVars, lifeVars, returned, ops >>
    /\ UNCHANGED << outer, splVars >>

\* ... Ok(()), and the guard is dropped.
InvokeResult == "Ok"

sol_invoke_signed_return(t) ==
    /\ pc[t] = "invoke_validated"
    /\ validatorLock' = [validatorLock EXCEPT ![loc[t].self.cpi_validator] = NoThread]
    /\ pc' = [pc EXCEPT ![t] = "ready"]
    /\ loc' = [loc EXCEPT ![t] = NoCall]
    /\ returned' = Returned("sol_invoke_signed", << >>, InvokeResult)
    /\ UNCHANGED << validatorCell, poisoned, issued, delivered, clockVars,
                    logVars, lifeVars, ops >>
    /\ UNCHANGED << outer, splVars >>

\* ---------------------------------------------------------------- Next
Next ==
    \/ \E v \in Validators : new(v)
    \/ \E self \in BagToSet(handles) : clone(self)
    \/ \E self \in BagToSet(handles) : validator(self)
    \/ \E self \in BagToSet(handles) : set(self)
    \/ \E t \in Threads, self \in BagToSet(handles), s \in TestSlots :
          slot_lock(t, self, s)
    \/ \E t \in Threads : slot_store(t)
    \/ \E t \in Threads, self \in BagToSet(handles), c \in TestClocks :
          clock_lock(t, self, c)
    \/ \E t \in Threads : clock_store_first(t)
    \/ \E t \in Threads : clock_store_rest(t)
    \/ \E t \in Threads : sol_get_clock_sysvar_lock(t)
    \/ \E t \in Threads : sol_get_clock_sysvar_copy_first(t)
    \/ \E t \in Threads : sol_get_clock_sysvar_copy_rest(t)
    \/ \E t \in Threads, op \in UnimplementedSysvars : sol_get_sysvar(t, op)
    \/ \E t \in Threads, m \in Messages : sol_log_lock(t, m)
    \/ \E t \in Threads : sol_log_push(t)
    \/ \E t \in Threads, self \in BagToSet(handles) : logs_lock(t, self)
    \/ \E t \in Threads : logs_clone(t)
    \/ \E t \in Threads, ix \in Instructions, seeds \in SignersSeeds :
          sol_invoke_signed_lock(t, ix, seeds)
    \/ \E t \in Threads : sol_invoke_signed_validate(t)
    \/ \E t \in Threads : sol_invoke_signed_return(t)

Spec == Init /\ [][Next]_vars

\* ------------------------------------------- validations that call hooks
\* validate_next_instruction of a validator that calls a hook: the call is
\* made with the validator's Mutex held by sol_invoke_signed ...
validate_calls(t, want) ==
    /\ pc[t] = "invoke_locked"
    /\ validatorCell[loc[t].self.cpi_validator].kind \in HookingKinds
    /\ want \in Wanted(validatorCell[loc[t].self.cpi_validator].kind)
    /\ outer' = [outer EXCEPT ![t] = [frame |-> loc[t], want |-> want]]
    /\ pc' = [pc EXCEPT ![t] = "calling"]
    /\ loc' = [loc EXCEPT ![t] = NoCall]
    /\ UNCHANGED << validatorVars, clockVars, logVars, lifeVars, returned, ops,
                    splVars >>

\* ... and once the hook has returned the validator accepts the
\* instruction and validate_next_instruction returns.
validate_resumes(t) ==
    /\ pc[t] = "ready"
    /\ outer[t] # NoCall
    /\ LET frame == outer[t].frame
           v == frame.self.cpi_validator
       IN
       /\ delivered' = [delivered EXCEPT ![v] =
                          Append(@, Delivery(t, frame.instruction,
                                             frame.account_infos))]
       /\ validatorCell' = [validatorCell EXCEPT ![v].state = "Called"]
       /\ loc' = [loc EXCEPT ![t] = frame]
    /\ pc' = [pc EXCEPT ![t] = "invoke_validated"]
    /\ outer' = [outer EXCEPT ![t] = NoCall]
    /\ UNCHANGED << validatorLock, poisoned, issued, clockVars, logVars,
                    lifeVars, returned, ops, splVars >>

\* An instance with such a validator (or the documentation's), installed,
\* and a duplicate of it in the hands of the test.
HookingValidators == { CpiValidator, HookingValidator, RecursiveValidator }

NestedInit ==
    /\ allocated = 1
    /\ validatorCell \in { [i \in Cells |-> IF i = 1 THEN v ELSE Unallocated] :
                             v \in HookingValidators }
    /\ active = NewSyscalls(validatorCell[1], 1)
    /\ handles = SetToBag({ CloneSyscalls(active) })
    /\ validatorArcs = {}
    /\ validatorLock = [i \in Cells |-> NoThread]
    /\ poisoned = [i \in Cells |-> FALSE]
    /\ clockCell = [i \in Cells |-> DefaultClock]
    /\ clockLock = [i \in Cells |-> NoThread]
    /\ logsCell = [i \in Cells |-> << >>]
    /\ logsLock = [i \in Cells |-> NoThread]
    /\ pc = [t \in Threads |-> "ready"]
    /\ loc = [t \in Threads |-> NoCall]
    /\ returned = Returned("none", << >>, 0)
    /\ ops = 0
    /\ lastSet = [i \in Cells |-> DefaultClock]
    /\ wholesale = [i \in Cells |-> FALSE]
    /\ emitted = [i \in Cells |-> << >>]
    /\ issued = [t \in Threads |-> << >>]
    /\ delivered = [i \in Cells |-> << >>]
    /\ outer = [t \in Threads |-> NoCall]
    /\ mint = PackLe(0)
    /\ wallets = [w \in Wallets |-> PackLe(0)]
    /\ result = NoResult

\* The calls thread t may enter.
Enter(t) ==
    \/ \E self \in BagToSet(handles), s \in TestSlots : slot_lock(t, self, s)
    \/ \E self \in BagToSet(handles), c \in TestClocks : clock_lock(t, self, c)
    \/ sol_get_clock_sysvar_lock(t)
    \/ \E op \in UnimplementedSysvars : sol_get_sysvar(t, op)
    \/ \E m \in Messages : sol_log_lock(t, m)
    \/ \E self \in BagToSet(handles) : logs_lock(t, self)
    \/ \E ix \in Instructions, seeds \in SignersSeeds :
          sol_invoke_signed_lock(t, ix, seeds)

\* The steps of the call thread t is in.
Proceed(t) ==
    \/ slot_store(t)
    \/ clock_store_first(t)
    \/ clock_store_rest(t)
    \/ sol_get_clock_sysvar_copy_first(t)
    \/ sol_get_clock_sysvar_copy_rest(t)
    \/ sol_log_push(t)
    \/ logs_clone(t)
    \/ \E want \in Wanted("HookingValidator") \cup Wanted("RecursiveValidator") :
          validate_calls(t, want)
    \/ validate_resumes(t)
    \/ sol_invoke_signed_validate(t)
    \/ sol_invoke_signed_return(t)

NestedNext == \E t \in Threads : Enter(t) \/ Proceed(t)

\* Every thread that can run is run: a call it is in goes on, and a call a
\* validation makes is entered once its lock stays free.
Scheduled(t) == Proceed(t) \/ (pc[t] = "calling" /\ Enter(t))

NestedSpec ==
    /\ NestedInit
    /\ [][NestedNext]_vars
    /\ \A t \in Threads : WF_vars(Scheduled(t))

\* =========================================== spl: the token helpers
\* u64::checked_add and u64::checked_sub.
checked_add(a, b) == IF a + b <= U64Max THEN Some(a + b) ELSE None
checked_sub(a, b) == IF a >= b THEN Some(a - b) ELSE None

\* `x as u64` of an i128: the low word of x.
AsU64(x) == x % (U64Max + 1)
\* `x as i128` of a u64.
AsI128(x) == x
\* i128::abs with wrapping arithmetic: i128::MIN has no positive
\* counterpart and is returned as it is.
WrappingAbs(x) == IF x >= 0 THEN x ELSE IF x = I128Min THEN I128Min ELSE -x

\* token_account::change_amount(info, amount) on the account data `data`,
\* in a build without overflow checks: what it returns and the data it
\* leaves.  (For every amount but i128::MIN a build with overflow checks
\* does the same.)
ChangeAmount(data, info, amount) ==
    LET current_amount == UnpackLe(data[info])
        changed == IF amount >= 0
                   THEN checked_add(current_amount, AsU64(amount))
                   ELSE checked_sub(current_amount, AsU64(WrappingAbs(amount)))
    IN
    IF changed = None
    THEN [ret |-> None, data |-> data]
    ELSE [ret |-> Some(current_amount),
          data |-> [data EXCEPT ![info] = PackLe(changed[1])]]

\* token_account::transfer(from, into, amount).
TransferredFromSnapshot(data, from, into, amount) ==
    IF UnpackLe(data[from]) < amount \/ UnpackLe(data[into]) + amount > U64Max
    THEN [ret |-> None, data |-> data]
    ELSE [ret |-> Some(Unit),
          data |-> [w \in Wallets |->
                      IF w = into THEN PackLe(UnpackLe(data[into]) + amount)
                      ELSE IF w = from THEN PackLe(UnpackLe(data[from]) - amount)
                      ELSE data[w]]]
Transferred(data, from, into, amount) ==
    LET debited == ChangeAmount(data, from, -AsI128(amount)) IN
    IF debited.ret = None
    THEN [ret |-> None, data |-> debited.data]
    ELSE LET credited == ChangeAmount(debited.data, into, AsI128(amount)) IN
         IF credited.ret = None
         THEN [ret |-> None, data |-> credited.data]
         ELSE [ret |-> Some(Unit), data |-> credited.data]

\* mint::mint_to(wallet, mint, amount) on the mint data m.
MintedTo(m, data, wallet, amount) ==
    LET supply == checked_add(UnpackLe(m), amount) IN
    IF supply = None
    THEN [ret |-> None, mint |-> m, data |-> data]
    ELSE LET changed == ChangeAmount(data, wallet, AsI128(amount)) IN
         IF changed.ret = None
         THEN [ret |-> None, mint |-> m, data |-> changed.data]
         ELSE [ret |-> Some(Unit), mint |-> PackLe(supply[1]), data |-> changed.data]

\* mint::burn_from(wallet, mint, amount) on the mint data m.
BurnedSupplyFirst(m, data, wallet, amount) ==
    LET supply == checked_sub(UnpackLe(m), amount) IN
    IF supply = None
    THEN [ret |-> None, mint |-> m, data |-> data]
    ELSE LET changed == ChangeAmount(data, wallet, -AsI128(amount)) IN
         [ret |-> IF changed.ret = None THEN None ELSE Some(Unit),
          mint |-> PackLe(supply[1]), data |-> changed.data]
BurnedFrom(m, data, wallet, amount) ==
    LET supply == checked_sub(UnpackLe(m), amount) IN
    IF supply = None
    THEN [ret |-> None, mint |-> m, data |-> data]
    ELSE LET changed == ChangeAmount(data, wallet, -AsI128(amount)) IN
         IF changed.ret = None
         THEN [ret |-> None, mint |-> m, data |-> changed.data]
         ELSE [ret |-> Some(Unit), mint |-> PackLe(supply[1]), data |-> changed.data]

\* A helper's call and what it gave back.
Result(fn, args, ret) == [fn |-> fn, args |-> args, ret |-> ret, panic |-> FALSE]

\* change_amount as a call; overflow_checks is the build's setting: with it
\* on, amount.abs() panics on i128::MIN.
change_amount(info, amount, overflow_checks) ==
    /\ IF overflow_checks /\ amount = I128Min
       THEN /\ result' = [fn |-> "change_amount", args |-> << info, amount >>,
                          ret |-> None, panic |-> TRUE]
            /\ wallets' = wallets
       ELSE LET r == ChangeAmount(wallets, info, amount) IN
            /\ result' = Result("change_amount", << info, amount >>, r.ret)
            /\ wallets' = r.data
    /\ UNCHANGED << mint, stubVars >>

transfer(from, into, amount) ==
    /\ LET r == Transferred(wallets, from, into, amount) IN
       /\ result' = Result("transfer", << from, into, amount >>, r.ret)
       /\ wallets' = r.data
    /\ UNCHANGED << mint, stubVars >>

mint_to(wallet, amount) ==
    /\ LET r == MintedTo(mint, wallets, wallet, amount) IN
       /\ result' = Result("mint_to", << wallet, amount >>, r.ret)
       /\ wallets' = r.data
       /\ mint' = r.mint
    /\ UNCHANGED stubVars

burn_from(wallet, amount) ==
    /\ LET r == BurnedFrom(mint, wallets, wallet, amount) IN
       /\ result' = Result("burn_from", << wallet, amount >>, r.ret)
       /\ wallets' = r.data
       /\ mint' = r.mint
    /\ UNCHANGED stubVars

\* The helpers on account data of any content ...
HelperInit ==
    /\ StubInit
    /\ mint \in { PackLe(v) : v \in U64 }
    /\ wallets \in [Wallets -> { PackLe(v) : v \in U64 }]
    /\ result = NoResult

\* ... each called once on it, with any arguments.
Fresh == result = NoResult

HelperNext ==
    \/ \E info \in Wallets, amount \in I128, overflow_checks \in BOOLEAN :
          Fresh /\ change_amount(info, amount, overflow_checks)
    \/ \E from \in Wallets, into \in Wallets, amount \in U64 :
          Fresh /\ transfer(from, into, amount)
    \/ \E wallet \in Wallets, amount \in U64 : Fresh /\ mint_to(wallet, amount)
    \/ \E wallet \in Wallets, amount \in U64 : Fresh /\ burn_from(wallet, amount)

HelperSpec == HelperInit /\ [][HelperNext]_vars

\* The amount a token account holds, and the amounts of all of them.
Amount(data, w) == UnpackLe(data[w])
RECURSIVE TotalOf(_, _)
TotalOf(data, ws) ==
    IF ws = {} THEN 0
    ELSE LET w == CHOOSE x \in ws : TRUE IN Amount(data, w) + TotalOf(data, ws \ { w })

\* A mint and its wallets: the supply is what the wallets hold.
TokenInit ==
    /\ StubInit
    /\ wallets \in [Wallets -> { PackLe(v) : v \in U64 }]
    /\ TotalOf(wallets, Wallets) <= U64Max
    /\ mint = PackLe(TotalOf(wallets, Wallets))
    /\ result = NoResult

TokenNext ==
    \/ \E from \in Wallets, into \in Wallets, amount \in U64 :
          transfer(from, into, amount)
    \/ \E wallet \in Wallets, amount \in U64 : mint_to(wallet, amount)
    \/ \E wallet \in Wallets, amount \in U64 : burn_from(wallet, amount)

TokenSpec == TokenInit /\ [][TokenNext]_vars

\* ===================================================== the properties
\* The step thread t takes from one place of a call to another.
Step(t, from, to) == pc[t] = from /\ pc'[t] = to

IsPrefix(a, b) == Len(a) <= Len(b) /\ SubSeq(b, 1, Len(a)) = a

\* C1: a clock sysvar read returns status 0 and hands its caller exactly
\* the clock the most recent update (clock(c) wholesale, slot(s) on the
\* slot alone) left, field for field, never a mixture of two updates, also
\* when updates and reads of several threads interleave; and whenever no
\* thread holds the clock's Mutex the cell holds that value.
ClockReadIsLastSet ==
    [][ /\ \A t \in Threads :
             Step(t, "get_clock_copying", "ready") =>
                /\ returned'.op = "sol_get_clock_sysvar"
                /\ returned'.ret = 0
                /\ ClockFromBytes(returned'.out) = lastSet[loc[t].self.clock]
        /\ \A c \in Cells :
             clockLock'[c] = NoThread => clockCell'[c] = lastSet'[c]
      ]_vars

\* A read has returned the clock left by clock(c) followed by slot(42).
ClockReadWitness ==
    /\ returned.op = "sol_get_clock_sysvar"
    /\ returned.ret = 0
    /\ ClockFromBytes(returned.out) = ClockOf(42, 6, 7, 8, 9)

\* C2: slot(s) changes the slot field alone: the step that stores it leaves
\* the clock as it was with slot replaced by s, on a clock no clock(c) was
\* ever applied to every other field is the default, and neither step of
\* slot(s) changes the log buffer or the validator state.
SlotChangesOnlySlot ==
    [][ /\ \A t \in Threads :
             Step(t, "slot_locked", "ready") =>
                LET c == loc[t].self.clock IN
                /\ clockCell'[c].slot = loc[t].slot
                /\ clockCell'[c].epoch_start_timestamp = clockCell[c].epoch_start_timestamp
                /\ clockCell'[c].epoch = clockCell[c].epoch
                /\ clockCell'[c].leader_schedule_epoch = clockCell[c].leader_schedule_epoch
                /\ clockCell'[c].unix_timestamp = clockCell[c].unix_timestamp
                /\ \A d \in Cells \ {c} : clockCell'[d] = clockCell[d]
                /\ logsCell' = logsCell
                /\ validatorCell' = validatorCell
        /\ \A t \in Threads :
             Step(t, "ready", "slot_locked") =>
                /\ clockCell' = clockCell
                /\ logsCell' = logsCell
                /\ validatorCell' = validatorCell
        /\ \A c \in Cells :
             ~wholesale'[c] =>
                clockCell'[c] = [DefaultClock EXCEPT !.slot = clockCell'[c].slot]
      ]_vars

\* slot(10) was stored over the clock clock(c) had left, and slot(42) over
\* the default clock of another instance.
SlotWitness ==
    \E c \in Cells :
        /\ clockLock[c] = NoThread
        /\ clockCell[c] = ClockOf(10, 0, 0, 0, 2)
        /\ \E d \in Cells : ~wholesale[d] /\ clockCell[d].slot = 42

\* C3: logs() returns exactly the messages sol_log was given on that
\* instance, in emission order; the buffer only ever grows at its end, by
\* the message of the sol_log call that holds its Mutex, and no other step
\* changes it.
LogsAreEmissions ==
    [][ /\ \A t \in Threads :
             Step(t, "logs_locked", "ready") =>
                /\ returned'.op = "logs"
                /\ returned'.out = emitted[loc[t].self.logs]
        /\ \A l \in Cells :
             \/ logsCell'[l] = logsCell[l]
             \/ \E t \in Threads :
                   /\ Step(t, "sol_log_locked", "ready")
                   /\ loc[t].self.logs = l
                   /\ logsCell'[l] = Append(logsCell[l], loc[t].message)
        /\ \A l \in Cells :
             /\ IsPrefix(logsCell'[l], emitted'[l])
             /\ logsLock'[l] = NoThread => logsCell'[l] = emitted'[l]
      ]_vars

\* logs() has returned two different messages in the order they were logged.
LogsWitness ==
    /\ returned.op = "logs"
    /\ returned.out = << "m2", "m1" >>


\* The records of a sequence, without who issued or received them.
Records(seq) == [k \in 1..Len(seq) |-> [ix |-> seq[k].ix, accounts |-> seq[k].accounts]]
IssuedTo(t, v) == Records(SelectSeq(issued[t], LAMBDA r : r.cell = v))
DeliveredFrom(v, t) == Records(SelectSeq(delivered[v], LAMBDA r : r.thread = t))

\* C4: the validator of an instance is handed the invoke-signed calls of
\* each thread of control in the order that thread issued them, each one
\* once, with its instruction and accounts unchanged, the k-th before the
\* (k+1)-th; the only call not handed over is a thread's last one, while it
\* is still to be validated or after it aborted on the poisoned lock; and
\* the validate step of sol_invoke_signed is the only step that hands the
\* validator anything, one record at a time.
DeliveryInIssueOrder ==
    /\ [](\A t \in Threads, v \in Cells :
            issued[t] # << >> \/ delivered[v] # << >> =>
            LET sent == IssuedTo(t, v)
                got == DeliveredFrom(v, t)
            IN
            /\ IsPrefix(got, sent)
            /\ Len(sent) - Len(got) \in {0, 1}
            /\ Len(sent) > Len(got) =>
                  /\ pc[t] \in { "invoke_locked", "aborted" }
                  /\ issued[t][Len(issued[t])].cell = v)
    /\ [][ \A v \in Cells :
             \/ delivered'[v] = delivered[v]
             \/ \E t \in Threads :
                   /\ \/ Step(t, "invoke_locked", "invoke_validated")
                      \/ Step(t, "invoke_locked", "aborted")
                   /\ loc[t].self.cpi_validator = v
                   /\ delivered'[v] =
                         Append(delivered[v],
                                [thread |-> t, ix |-> loc[t].instruction,
                                 accounts |-> AccountInfosFor(loc[t].instruction)])
         ]_vars

\* One thread issued A and then B and the validator received A, then B.
DeliveryWitness ==
    \E v \in Cells, t \in Threads :
        /\ Len(delivered[v]) = 2
        /\ DeliveredFrom(v, t) =
              << [ix |-> "A", accounts |-> << "acc1" >>],
                 [ix |-> "B", accounts |-> << "acc1", "acc2" >>] >>
        /\ IssuedTo(t, v) = DeliveredFrom(v, t)

\* The cells holding a validator of the given kind.
CellsOf(kind) == { v \in Cells : validatorCell[v].kind = kind }

\* C5: with the validator that expects exactly one CPI (FirstCpiCall, then
\* Done), the first invoke-signed call is accepted, leaves the validator in
\* Done and returns Ok; every call made after it aborts, at the validation or
\* on the poisoned lock, and never returns; the validator never leaves Done.
OneCpiThenAbort ==
    [][ \A v \in CellsOf("CpiValidator") :
          /\ validatorCell[v].state = "Done" => validatorCell'[v].state = "Done"
          /\ validatorCell'[v].state = "Done" <=> delivered'[v] # << >>
          /\ \A t \in Threads :
               /\ pc'[t] = "invoke_validated" /\ loc'[t].self.cpi_validator = v =>
                     /\ Len(delivered'[v]) = 1
                     /\ delivered'[v][1].thread = t
                     /\ validatorCell'[v].state = "Done"
               /\ Step(t, "invoke_validated", "ready") /\ loc[t].self.cpi_validator = v =>
                     /\ returned' = Returned("sol_invoke_signed", << >>, "Ok")
                     /\ validatorCell'[v].state = "Done"
               /\ Step(t, "invoke_locked", "aborted") /\ loc[t].self.cpi_validator = v =>
                     /\ delivered[v] # << >>
                     /\ validatorCell[v].state = "Done"
               /\ Step(t, "ready", "aborted") /\ active.cpi_validator = v =>
                     /\ Len(delivered[v]) >= 2
                     /\ validatorCell'[v].state = "Done"
               /\ Step(t, "ready", "invoke_locked") /\ Len(delivered[v]) >= 1
                  /\ active.cpi_validator = v =>
                     Len(delivered[v]) = 1 /\ ~poisoned[v]
      ]_vars

\* The first call returned Ok, a second one aborted in the validator, which
\* is in Done.
OneCpiWitness ==
    \E v \in CellsOf("CpiValidator"), t \in Threads :
        /\ returned = Returned("sol_invoke_signed", << >>, "Ok")
        /\ pc[t] = "aborted"
        /\ Len(delivered[v]) = 2
        /\ validatorCell[v].state = "Done"

\* No invoke-signed call has been made.
NoCpiYet == \A t \in Threads : issued[t] = << >>

\* The validator cells the Syscalls values in use refer to.
ValidatorCellsInUse ==
    { h.cpi_validator : h \in BagToSet(handles) \cup ({ active } \ { NoProvider }) }

\* C6: only the validate step of sol_invoke_signed changes a validator
\* (after Syscalls::new put it in its cell); so as long as no invoke-signed
\* call was made, whatever logs, clock updates, sysvar reads, logs(),
\* validator() and duplications happened, every validator is in the state
\* it was constructed in; and what validator() returns is the very cell the
\* Syscalls value and the hooks use, not another one.
OnlyInvokeChangesValidator ==
    [][ /\ \A v \in Cells :
             \/ validatorCell'[v] = validatorCell[v]
             \/ v = allocated + 1 /\ allocated' = v /\ validatorCell'[v] \in Validators
             \/ \E t \in Threads :
                   pc[t] = "invoke_locked" /\ loc[t].self.cpi_validator = v
        /\ NoCpiYet' =>
             \A v \in 1..allocated' : validatorCell'[v] \in Validators
        /\ validatorArcs' \subseteq validatorArcs \cup ValidatorCellsInUse
        /\ validatorArcs' \subseteq 1..allocated'
      ]_vars

\* The installed instance has logged and its clock was set, the test holds
\* the validator() handle of that instance, and with no CPI made the
\* validator is as constructed.
FrameWitness ==
    /\ NoCpiYet
    /\ active # NoProvider
    /\ active.cpi_validator \in validatorArcs
    /\ logsCell[active.logs] # << >>
    /\ clockCell[active.clock] # DefaultClock
    /\ validatorCell[active.cpi_validator] = CpiValidator
    /\ returned.op = "sol_get_rent_sysvar"

\* C7: with the validator that expects [A, B]: A then B are both accepted
\* and both calls return Ok with the validator in Done, which it reaches in
\* no other way; if B is issued first the run aborts on it, no later call
\* (A included) is handed to the validator, and it never reaches Done.
SeqValidatorScenario ==
    [][ \A v \in CellsOf("SeqValidator") :
          /\ validatorCell'[v].state = "Done" =>
                /\ Len(delivered'[v]) >= 2
                /\ delivered'[v][1].ix = "A"
                /\ delivered'[v][2].ix = "B"
          /\ delivered'[v] # << >> /\ delivered'[v][1].ix = "B" =>
                /\ Len(delivered'[v]) = 1
                /\ poisoned'[v]
                /\ validatorCell'[v].state = "ExpectA"
                /\ pc'[delivered'[v][1].thread] = "aborted"
          /\ \A t \in Threads :
               /\ pc[t] = "invoke_locked" /\ loc[t].self.cpi_validator = v
                  /\ delivered[v] = << >> /\ loc[t].instruction = "A" =>
                     /\ pc'[t] # "aborted"
                     /\ pc'[t] = "invoke_validated" => validatorCell'[v].state = "ExpectB"
               /\ pc[t] = "invoke_locked" /\ loc[t].self.cpi_validator = v
                  /\ Len(delivered[v]) = 1 /\ loc[t].instruction = "B" =>
                     /\ pc'[t] # "aborted"
                     /\ pc'[t] = "invoke_validated" => validatorCell'[v].state = "Done"
               /\ Step(t, "invoke_validated", "ready") /\ loc[t].self.cpi_validator = v =>
                     returned' = Returned("sol_invoke_signed", << >>, "Ok")
      ]_vars

\* A then B were issued, both returned, and the validator is in Done.
SeqDoneWitness ==
    \E v \in CellsOf("SeqValidator") :
        /\ validatorCell[v].state = "Done"
        /\ Len(delivered[v]) = 2
        /\ \A t \in Threads : pc[t] = "ready"
        /\ returned = Returned("sol_invoke_signed", << >>, "Ok")

\* The Syscalls values in existence: those the test holds and the one
\* installed.
InUse == BagToSet(handles) \cup ({ active } \ { NoProvider })

\* What a holder of a Syscalls value observes through it.
Observed(h) ==
    [clock |-> clockCell[h.clock], logs |-> logsCell[h.logs],
     cpi_validator |-> validatorCell[h.cpi_validator]]

\* C8: duplicating a Syscalls value shares state: the duplicate is the same
\* three cells, no cell is allocated or written by the duplication, every
\* value in existence refers to the clock, logs and validator of one
\* Syscalls::new, and two values of the same instance observe the same
\* clock, log buffer and validator state at every point, whichever of them
\* (the one given to set() included) a mutation was made through.
CloneSharesState ==
    [][ /\ BagCardinality(handles') > BagCardinality(handles)
           /\ allocated' = allocated =>
              /\ BagToSet(handles') = BagToSet(handles)
              /\ UNCHANGED << clockCell, logsCell, validatorCell >>
        /\ \A h \in InUse' :
              /\ h.cpi_validator \in 1..allocated'
              /\ h.clock = h.cpi_validator
              /\ h.logs = h.cpi_validator
        /\ \A h1 \in InUse', h2 \in InUse' :
              h1.cpi_validator = h2.cpi_validator \/ h1.clock = h2.clock
              \/ h1.logs = h2.logs => Observed(h1)' = Observed(h2)'
      ]_vars

\* The test holds a duplicate of the installed instance, and logs() through
\* it returned what the program logged through the installed one, after the
\* program's CPI moved the validator both refer to.
CloneWitness ==
    /\ active # NoProvider
    /\ BagIn(active, handles)
    /\ returned.op = "logs"
    /\ returned.out # << >>
    /\ validatorCell[active.cpi_validator].state = "Done"

\* The places of the calls made on a Syscalls value the test holds.
TestSide == { "slot_locked", "clock_locked", "clock_storing", "logs_locked" }

\* Thread t takes a step of a hook.
HookStep(t) ==
    /\ pc'[t] # pc[t]
    /\ pc[t] \notin TestSide
    /\ pc'[t] \notin TestSide

\* C9: the provider is always the value most recently given to set(), the
\* one before it being dropped; every hook runs on that provider's cells
\* from its first step to its last, a clock read returns that instance's
\* clock (what was set on it before it was installed included), hooks
\* neither read nor change the cells of any other instance, and clock() and
\* slot() on an instance other than the installed one leave the installed
\* clock, hence the clock reads, unchanged.
ActiveIsLastInstalled ==
    [][ /\ active' # active \/ BagCardinality(handles') < BagCardinality(handles) =>
              /\ BagIn(active', handles)
              /\ handles' = handles (-) SetToBag({ active' })
        /\ \A t \in Threads : InHook(t)' => loc'[t].self = active'
        /\ \A t \in Threads :
              Step(t, "get_clock_copying", "ready") =>
                 ClockFromBytes(returned'.out) = lastSet[active.clock]
        /\ \A t \in Threads, i \in Cells :
              HookStep(t) /\ i # active.cpi_validator =>
                 /\ clockCell'[i] = clockCell[i] /\ clockLock'[i] = clockLock[i]
                 /\ logsCell'[i] = logsCell[i] /\ logsLock'[i] = logsLock[i]
                 /\ validatorCell'[i] = validatorCell[i]
                 /\ validatorLock'[i] = validatorLock[i]
                 /\ poisoned'[i] = poisoned[i]
                 /\ delivered'[i] = delivered[i] /\ emitted'[i] = emitted[i]
        /\ \A t \in Threads :
              /\ pc[t] \in TestSide \/ pc'[t] \in TestSide
              /\ pc'[t] # pc[t]
              /\ active # NoProvider
              /\ (IF pc[t] \in TestSide THEN loc[t] ELSE loc'[t]).self.clock # active.clock
              => /\ clockCell'[active.clock] = clockCell[active.clock]
                 /\ lastSet'[active.clock] = lastSet[active.clock]
      ]_vars

\* A first instance was installed and logged, a second one had its clock
\* set and then replaced it, and a clock read returned the second
\* instance's clock.
ActiveWitness ==
    /\ allocated = 2
    /\ logsCell[1] # << >>
    /\ active # NoProvider
    /\ active.clock = 2
    /\ BagToSet(handles) = {}
    /\ returned.op = "sol_get_clock_sysvar"
    /\ ClockFromBytes(returned.out) = ClockOf(5, 6, 7, 8, 9)
    /\ clockCell[1] = DefaultClock

\* C10: sol_invoke_signed hands the program no error value: a call that
\* took the lock either is accepted, after which it drops the guard and
\* returns Ok, or panics in the validator, which releases and poisons the
\* lock; a call that finds the lock poisoned aborts; an aborted thread runs
\* no further; and which of these happens, and the validator state left, is
\* what validate_next_instruction makes of the instruction and the accounts
\* alone, whatever the signer seeds.
InvokeReturnsOkOrAborts ==
    [][ /\ returned'.op = "sol_invoke_signed" => returned'.ret = "Ok"
        /\ \A v \in Cells :
              validatorLock'[v] # NoThread =>
                 /\ pc'[validatorLock'[v]] \in { "invoke_locked", "invoke_validated" }
                 /\ loc'[validatorLock'[v]].self.cpi_validator = v
        /\ \A t \in Threads :
              LET v == loc[t].self.cpi_validator
                  r == validate_next_instruction(validatorCell[v],
                          loc[t].instruction, loc[t].account_infos)
              IN
              /\ pc[t] = "aborted" => pc'[t] = "aborted"
              /\ pc[t] = "invoke_locked" /\ pc'[t] # pc[t] =>
                    /\ validatorCell'[v] = r.v
                    /\ pc'[t] = (IF r.panic THEN "aborted" ELSE "invoke_validated")
                    /\ r.panic => poisoned'[v] /\ validatorLock'[v] = NoThread
                    /\ ~r.panic => validatorLock'[v] = t /\ poisoned'[v] = poisoned[v]
              /\ pc[t] = "invoke_validated" /\ pc'[t] # pc[t] =>
                    /\ pc'[t] = "ready"
                    /\ returned' = Returned("sol_invoke_signed", << >>, "Ok")
                    /\ validatorLock[v] = t
                    /\ validatorLock'[v] = NoThread
                    /\ validatorCell' = validatorCell
              /\ Step(t, "ready", "aborted") =>
                    /\ poisoned[active.cpi_validator]
                    /\ validatorCell' = validatorCell
                    /\ validatorLock' = validatorLock
      ]_vars

\* A call made with signer seeds was accepted and is about to return, and
\* another thread's call has aborted.
InvokeWitness ==
    \E t \in Threads, u \in Threads :
        /\ pc[t] = "invoke_validated"
        /\ loc[t].signers_seeds # << >>
        /\ pc[u] = "aborted"

\* C11: once a validation has aborted while it held the validator's Mutex,
\* the Mutex stays poisoned for good; from then on every invoke-signed call
\* on that validator (through the instance or any duplicate of it) aborts
\* where it takes the lock, hands the validator nothing and leaves its state
\* as it is, also when the validator would have accepted the record; no
\* thread is ever inside a validation on a poisoned validator, and only an
\* aborting validation poisons.
PoisonedLockIsFatal ==
    [][ \A v \in Cells :
          /\ poisoned[v] =>
                /\ poisoned'[v]
                /\ validatorCell'[v] = validatorCell[v]
                /\ delivered'[v] = delivered[v]
                /\ validatorLock[v] = NoThread
                /\ validatorLock'[v] = NoThread
                /\ \A t \in Threads :
                      /\ issued'[t] # issued[t] /\ active.cpi_validator = v =>
                            pc'[t] = "aborted"
                      /\ pc'[t] \in { "invoke_locked", "invoke_validated" } =>
                            loc'[t].self.cpi_validator # v
          /\ poisoned'[v] /\ ~poisoned[v] =>
                \E t \in Threads :
                   /\ Step(t, "invoke_locked", "aborted")
                   /\ loc[t].self.cpi_validator = v
      ]_vars

\* The validator expecting [A, B] was handed B and aborted; another thread
\* then issued A, which the validator was waiting for, and aborted on the
\* poisoned lock: the validator was handed B alone and still expects A.
PoisonWitness ==
    \E v \in CellsOf("SeqValidator"), t \in Threads :
        /\ poisoned[v]
        /\ validatorCell[v].state = "ExpectA"
        /\ pc[t] = "aborted"
        /\ issued[t] # << >>
        /\ issued[t][Len(issued[t])].cell = v
        /\ issued[t][Len(issued[t])].ix = "A"
        /\ Len(delivered[v]) = 1
        /\ delivered[v][1].ix = "B"

\* The places where a thread holds a validator's Mutex, and a clock's.
InValidation == { "invoke_locked", "invoke_validated" }
HoldsClock ==
    { "slot_locked", "clock_locked", "clock_storing", "get_clock_locked",
      "get_clock_copying" }

\* C12: the validator, the clock and the logs have a Mutex each: a thread
\* inside a validation holds the validator's Mutex and neither of the other
\* two, and while it is there another thread's clock(c), slot(s), clock
\* sysvar read, sol_log and logs() take their lock as soon as no clock or
\* log operation holds it and run every step to their end; conversely while
\* a thread holds the clock's Mutex another thread's invoke-signed call
\* takes the validator's lock as soon as no validation holds it, and runs
\* to its end.
LocksAreIndependent ==
    \A t \in Threads : \A u \in Threads \ { t } :
        /\ pc[t] \in InValidation =>
              /\ validatorLock[loc[t].self.cpi_validator] = t
              /\ \A c \in Cells : clockLock[c] # t /\ logsLock[c] # t
              /\ Ready(u) =>
                    /\ \A h \in BagToSet(handles) :
                          /\ clockLock[h.clock] = NoThread =>
                                /\ \A s \in TestSlots : ENABLED slot_lock(u, h, s)
                                /\ \A c \in TestClocks : ENABLED clock_lock(u, h, c)
                          /\ logsLock[h.logs] = NoThread => ENABLED logs_lock(u, h)
                    /\ clockLock[active.clock] = NoThread =>
                          ENABLED sol_get_clock_sysvar_lock(u)
                    /\ logsLock[active.logs] = NoThread =>
                          \A m \in Messages : ENABLED sol_log_lock(u, m)
              /\ pc[u] = "slot_locked" => ENABLED slot_store(u)
              /\ pc[u] = "clock_locked" => ENABLED clock_store_first(u)
              /\ pc[u] = "clock_storing" => ENABLED clock_store_rest(u)
              /\ pc[u] = "get_clock_locked" => ENABLED sol_get_clock_sysvar_copy_first(u)
              /\ pc[u] = "get_clock_copying" => ENABLED sol_get_clock_sysvar_copy_rest(u)
              /\ pc[u] = "sol_log_locked" => ENABLED sol_log_push(u)
              /\ pc[u] = "logs_locked" => ENABLED logs_clone(u)
        /\ pc[t] \in HoldsClock =>
              /\ clockLock[loc[t].self.clock] = t
              /\ \A v \in Cells : validatorLock[v] # t /\ logsLock[v] # t
              /\ Ready(u) /\ active # NoProvider
                 /\ validatorLock[active.cpi_validator] = NoThread =>
                    \A ix \in Instructions, seeds \in SignersSeeds :
                       ENABLED sol_invoke_signed_lock(u, ix, seeds)
              /\ pc[u] = "invoke_locked" => ENABLED sol_invoke_signed_validate(u)
              /\ pc[u] = "invoke_validated" => ENABLED sol_invoke_signed_return(u)

\* On one instance, a thread is inside a validation while another is in the
\* middle of a clock sysvar read; and a thread is in the middle of clock(c)
\* while another is inside a validation.
IndependenceWitness ==
    \E t \in Threads, u \in Threads :
        /\ pc[t] = "invoke_locked"
        /\ pc[u] = "get_clock_copying"
        /\ loc[u].self.clock = loc[t].self.cpi_validator
        /\ clockCell[loc[u].self.clock] # DefaultClock

\* The threads inside a validation on validator v.
Validating(v) ==
    { t \in Threads : pc[t] \in InValidation /\ loc[t].self.cpi_validator = v }

\* The validator a cell was constructed with.
Constructed(v) ==
    IF validatorCell[v].kind = "CpiValidator" THEN CpiValidator ELSE SeqValidator

\* The state a validator is left in by the records handed to it, one after
\* the other.
RECURSIVE Replayed(_, _)
Replayed(cpis, records) ==
    IF records = << >>
    THEN cpis
    ELSE Replayed(validate_next_instruction(cpis, Head(records).ix,
                                            Head(records).accounts).v,
                  Tail(records))

\* C13: invoke-signed calls on one validator, through the instance or its
\* duplicates, go through its Mutex one at a time: at most one thread is
\* inside validate_next_instruction on it, and that thread holds the lock;
\* the records of the concurrent calls reach the validator in one sequence,
\* and its state is what that sequence makes of the state it was
\* constructed in, each transition applied to what the one before left.
ValidationsAreSerialized ==
    \A v \in 1..allocated :
        /\ Cardinality(Validating(v)) <= 1
        /\ \A t \in Validating(v) : validatorLock[v] = t
        /\ validatorLock[v] # NoThread => Validating(v) = { validatorLock[v] }
        /\ validatorCell[v] = Replayed(Constructed(v), delivered[v])

\* Two threads' calls were accepted by the validator expecting [A, B]: the
\* one thread's A, then the other's B, which is inside its validation call
\* with the validator in Done, while the first thread has returned.
SerializedWitness ==
    \E v \in CellsOf("SeqValidator"), t \in Threads :
        /\ Validating(v) = { t }
        /\ Len(delivered[v]) = 2
        /\ delivered[v][1].thread # t
        /\ delivered[v][2].thread = t
        /\ validatorCell[v].state = "Done"

\* C14: the epoch-schedule, fees and rent sysvar reads take no lock, so a
\* thread between two calls can always make one, whatever the others hold
\* and whatever was poisoned; each returns 0 and leaves the caller's buffer
\* as it was passed; and the step changes neither a clock, nor a log buffer,
\* nor a validator, nor any of their locks.
SysvarStubsReportSuccess ==
    /\ [](\A t \in Threads, op \in UnimplementedSysvars :
             Ready(t) /\ active # NoProvider => ENABLED sol_get_sysvar(t, op))
    /\ [][ /\ returned'.op \in UnimplementedSysvars =>
                 /\ returned'.ret = 0
                 /\ returned'.out = CallerBuffer
           /\ ops' # ops /\ pc' = pc =>
                 /\ returned'.op \in UnimplementedSysvars
                 /\ UNCHANGED << clockCell, clockLock, lastSet, logsCell, logsLock,
                                 emitted, validatorCell, validatorLock, poisoned,
                                 delivered, lifeVars >>
         ]_vars

\* The fees sysvar read returned 0 and an untouched buffer on an installed
\* instance whose clock was set and whose validator lock is poisoned.
SysvarStubWitness ==
    /\ returned = Returned("sol_get_fees_sysvar", CallerBuffer, 0)
    /\ active # NoProvider
    /\ poisoned[active.cpi_validator]
    /\ clockCell[active.clock] # DefaultClock

\* C15: transfer(from, into, amount) returns Some(()) or None, and None
\* whenever the source holds fewer than amount tokens; when it returns
\* Some(()) the source held at least amount, the source has lost exactly
\* amount and the destination has gained exactly amount (with from = into
\* the account is as before), no other account and not the mint has
\* changed, and the two amounts add up to what they added up to before.
TransferMovesAmount ==
    [][ result'.fn = "transfer" =>
          LET from == result'.args[1]
              into == result'.args[2]
              amount == result'.args[3]
          IN
          /\ result'.ret \in { None, Some(Unit) }
          /\ ~result'.panic
          /\ Amount(wallets, from) < amount => result'.ret = None
          /\ result'.ret = Some(Unit) =>
                /\ Amount(wallets, from) >= amount
                /\ IF from = into
                   THEN wallets' = wallets
                   ELSE /\ Amount(wallets', from) = Amount(wallets, from) - amount
                        /\ Amount(wallets', into) = Amount(wallets, into) + amount
                /\ \A w \in Wallets \ { from, into } : wallets'[w] = wallets[w]
                /\ Amount(wallets', from) + Amount(wallets', into)
                      = Amount(wallets, from) + Amount(wallets, into)
                /\ mint' = mint
      ]_vars

\* A transfer of 3 tokens between two accounts returned Some(()) and left
\* the source with 2 and the destination with 4.
TransferWitness ==
    /\ result.fn = "transfer"
    /\ result.args = << "w1", "w2", 3 >>
    /\ result.ret = Some(Unit)
    /\ Amount(wallets, "w1") = 2
    /\ Amount(wallets, "w2") = 4

\* C16: change_amount(info, amount) returns Some(previous amount) and
\* stores previous + amount when that lies in the u64 range, and returns
\* None leaving the stored amount as it is when it does not, for every
\* i128 amount.
ChangeAmountChecksRange ==
    [][ result'.fn = "change_amount" =>
          LET info == result'.args[1]
              amount == result'.args[2]
              previous == Amount(wallets, info)
          IN
          /\ ~result'.panic
          /\ previous + amount \in U64 =>
                /\ result'.ret = Some(previous)
                /\ Amount(wallets', info) = previous + amount
          /\ previous + amount \notin U64 =>
                /\ result'.ret = None
                /\ wallets' = wallets
      ]_vars

\* Thread t is inside a validation that has issued a CPI of its own.
InRecursiveCpi(t) == pc[t] = "calling" /\ outer[t].want = "sol_invoke_signed"

\* C17: when validate_next_instruction, run by sol_invoke_signed, issues an
\* invoke-signed call from the same thread, the inner call is on the same
\* instance and finds the validator's Mutex held by its own thread: it can
\* never take it, the thread can take no other step either, so it stays
\* there for good with the lock held, the outer call never returns, and no
\* other thread's invoke-signed call gets the lock any more.
RecursiveCpiBlocks ==
    /\ [](\A t \in Threads :
             InRecursiveCpi(t) =>
                LET v == outer[t].frame.self.cpi_validator IN
                /\ active.cpi_validator = v
                /\ validatorLock[v] = t
                /\ ~ENABLED Scheduled(t)
                /\ \A u \in Threads, ix \in Instructions, seeds \in SignersSeeds :
                      ~ENABLED sol_invoke_signed_lock(u, ix, seeds))
    /\ [][ \A t \in Threads :
              InRecursiveCpi(t) =>
                 /\ InRecursiveCpi(t)'
                 /\ outer'[t] = outer[t]
                 /\ validatorLock' = validatorLock
                 /\ validatorCell' = validatorCell
                 /\ returned'.op # "sol_invoke_signed"
         ]_vars

\* A thread is inside a validation that issued a CPI; the other thread did
\* log in the meantime, but none of the calls issued was handed to the
\* validator or returned.
RecursiveWitness ==
    \E t \in Threads :
        /\ InRecursiveCpi(t)
        /\ logsCell[active.logs] # << >>
        /\ delivered[active.cpi_validator] = << >>
        /\ Len(issued[t]) = 1

\* The locks thread t holds, as << kind, cell >>.
LocksHeld(t) ==
    { << "validator", v >> : v \in { w \in Cells : validatorLock[w] = t } }
    \cup { << "clock", c >> : c \in { w \in Cells : clockLock[w] = t } }
    \cup { << "logs", l >> : l \in { w \in Cells : logsLock[w] = t } }

\* The one lock the operation thread t is in holds, by the place it is at.
LockOfCall(t) ==
    IF pc[t] \in InValidation THEN { << "validator", loc[t].self.cpi_validator >> }
    ELSE IF pc[t] \in HoldsClock THEN { << "clock", loc[t].self.clock >> }
    ELSE IF pc[t] \in { "sol_log_locked", "logs_locked" }
         THEN { << "logs", loc[t].self.logs >> }
    ELSE { }

\* The validator lock of the validation thread t is inside while it calls
\* a hook.
LockOfValidation(t) ==
    IF outer[t] = NoCall THEN { }
    ELSE { << "validator", outer[t].frame.self.cpi_validator >> }

\* Thread t is inside a call; and the threads holding the lock that the
\* call its validation makes is about to take.
Busy(t) == pc[t] \notin { "ready", "aborted" } \/ outer[t] # NoCall
WaitsFor(t) ==
    LET want == outer[t].want
        holder == IF want \in { "slot", "clock", "sol_get_clock_sysvar" }
                  THEN clockLock[active.clock]
                  ELSE IF want \in { "sol_log", "logs" }
                       THEN logsLock[active.logs]
                       ELSE validatorLock[active.cpi_validator]
    IN { holder } \ { NoThread }

\* No validator issues a CPI during validation.
NoRecursiveCpi == \A v \in Cells : validatorCell[v].kind # "RecursiveValidator"

\* C18: every operation of the harness holds exactly one lock, its own,
\* from its first step to its last and none after it ended or aborted; a
\* thread holds a second lock only as the validator lock of the validation
\* that made the call it is in, so the clock and log locks are never held
\* across a call into a validator; and with validators that issue no CPI
\* of their own, whatever they log, read or set meanwhile, every thread
\* inside a call can take a step or waits for a lock whose holder can, and
\* every call comes to its end.
LockDiscipline ==
    /\ [](\A t \in Threads :
             /\ Cardinality(LockOfCall(t)) <= 1
             /\ LocksHeld(t) = LockOfCall(t) \cup LockOfValidation(t)
             /\ ~Busy(t) => LocksHeld(t) = { }
             /\ outer[t] # NoCall => pc[t] \notin InValidation
             /\ NoRecursiveCpi /\ Busy(t) =>
                   \/ ENABLED Scheduled(t)
                   \/ /\ pc[t] = "calling"
                      /\ \E u \in WaitsFor(t) \ { t } : ENABLED Scheduled(u))
    /\ NoRecursiveCpi => \A t \in Threads : Busy(t) ~> ~Busy(t)

\* A validation that logs is in the middle of its sol_log, holding the
\* validator's and the log buffer's Mutex, while the other thread is in
\* the middle of a clock update.
DisciplineWitness ==
    \E t \in Threads, u \in Threads :
        /\ pc[t] = "sol_log_locked"
        /\ outer[t] # NoCall
        /\ Cardinality(LocksHeld(t)) = 2
        /\ pc[u] = "clock_storing"

\* C19: whenever mint_to, burn_from or transfer returns None, the mint and
\* every wallet hold what they held before the call; and the mint's supply
\* changes only in a call that returns Some(()).
HelpersAreAllOrNothing ==
    [][ result'.fn \in { "mint_to", "burn_from", "transfer" } =>
          /\ result'.ret = None => wallets' = wallets /\ mint' = mint
          /\ mint' # mint => result'.ret = Some(Unit)
      ]_vars

\* C20: with a mint whose supply is the sum of its wallets' amounts, after
\* any sequence of mint_to, burn_from and transfer on them, whatever they
\* returned, the supply is the sum of the amounts, which therefore fits a
\* u64, and the data of the mint and of each wallet is the packed form of
\* such a value.
SupplyIsConserved ==
    /\ UnpackLe(mint) = TotalOf(wallets, Wallets)
    /\ TotalOf(wallets, Wallets) \in U64
    /\ mint = PackLe(UnpackLe(mint))
    /\ \A w \in Wallets :
          /\ Amount(wallets, w) \in U64
          /\ wallets[w] = PackLe(Amount(wallets, w))

\* With 5 tokens in supply, 2 of them in w1, burn_from(w1, 3) returned
\* None: the supply would have allowed it, the wallet did not.
ConservationWitness ==
    /\ result.fn = "burn_from"
    /\ result.args = << "w1", 3 >>
    /\ result.ret = None
    /\ UnpackLe(mint) = 5
    /\ Amount(wallets, "w1") = 2
    /\ Amount(wallets, "w2") = 3
====
